---- MODULE Spec2Model ----
(***************************************************************************)
(* A model of the Markdown preview plugin of src/src/App.tsx (the second,  *)
(* v1.0.4, revision of the file: lines 556-1290).                          *)
(*                                                                         *)
(* JavaScript strings are sequences of one-character strings, so that      *)
(* trim, toLowerCase, startsWith, String() and the regular expressions of  *)
(* the source are computed the way the source computes them.               *)
(*                                                                         *)
(* The module holds one state machine per part of the program:             *)
(*   SpecClassify  isMermaidContent applied to a text                      *)
(*   SpecBlocks    PreBlock and CodeBlock applied to the nodes they are    *)
(*                 given by the Markdown renderer                          *)
(*   SpecCopy      copyToClipboard, its invocations overlapping            *)
(*   SpecMermaid   one MermaidBlock: mounts, prop changes and the renders  *)
(*                 it issues, finishing in any order                       *)
(*   SpecPrefs     the font size and its storage over page loads, and the  *)
(*                 two dropdown menus                                      *)
(*   SpecToast     the copy and download actions of the header, their      *)
(*                 feedback message and its clear timers; FairSpecToast    *)
(*                 adds that pending timers and pending asynchronous steps *)
(*                 do finish                                               *)
(*   Spec          the App component: init, the selection and theme        *)
(*                 subscriptions, the overlapping invocations of           *)
(*                 fetchCellContent, and the view rendered from the state  *)
(***************************************************************************)
EXTENDS Integers, Sequences, FiniteSets, TLC

VARIABLES
    ctext,          \* isMermaidContent: the argument `content`
    cres,           \* isMermaidContent: <<>> before the call, <<value returned>> after it
    blk,            \* PreBlock / CodeBlock: the component rendered and its props
    blkOut,         \* PreBlock / CodeBlock: <<>> before the render, <<element returned>> after it
    hasClipboard,   \* navigator.clipboard.writeText is a function
    clips,          \* the invocations of copyToClipboard, in the order of their calls
    bodyTextareas,  \* the <textarea> elements that are children of document.body
    hostSel,        \* the host: the selection bitable.base.getSelection() resolves with
    hostTheme,      \* the host: its theme
    themeReply,     \* in flight: <<>>, or <<the theme the host answered getTheme() with>>
    themeNotes,     \* in flight: the theme-change events the host has sent, oldest first
    initPc,         \* init(): "getTheme" while the call is pending, then "done" or "rejected"
    theme,          \* App state: theme
    cellInfo,       \* App state: cellInfo, <<>> for null, <<snapshot>> otherwise
    loading,        \* App state: loading
    error,          \* App state: error, "null" or the message
    flows,          \* the invocations of fetchCellContent, in the order of their calls
    appLoaded,      \* the App component is mounted
    storage,        \* localStorage['markdown-preview-font-size'], "null" when absent
    fontSize,       \* App state: fontSize
    showFontMenu,   \* App state: showFontMenu
    showDownloadMenu,   \* App state: showDownloadMenu
    savedAtLoad,    \* history: what the last mount read from localStorage
    lastChosen,     \* history: the argument of the last changeFontSize, "none" before it
    mbMounted,      \* MermaidBlock: the component is mounted
    mbProps,        \* MermaidBlock: its props, and where in the tree it stands
    mbSvg,          \* MermaidBlock state: svg, <<>> for '' and <<drawing>> otherwise
    mbError,        \* MermaidBlock state: error, "null" or the message
    mbRenders,      \* MermaidBlock: the mermaid.render calls of this mount still pending
    mbIssued,       \* history: the number of mermaid.render calls issued in the run
    mbSettled,      \* history: a mermaid.render call of this mount has finished
    mbLast,         \* history: what the block did last
    copySuccess,    \* App state: copySuccess, "null" or the feedback message
    toastOps,       \* the copy and image actions whose asynchronous step is pending
    toastTimers,    \* the pending setTimeout(() => setCopySuccess(null), 2000), oldest first
    toastCount,     \* history: the number of feedback actions started in the run
    toastBy         \* history: the number of the action that set copySuccess last, 0 for none

classifyVars == <<ctext, cres>>
blockVars == <<blk, blkOut>>
copyVars == <<hasClipboard, clips, bodyTextareas>>
hostVars == <<hostSel, hostTheme, themeReply, themeNotes>>
appVars == <<initPc, theme, cellInfo, loading, error, flows>>
prefVars == <<appLoaded, storage, fontSize, showFontMenu, showDownloadMenu, savedAtLoad,
              lastChosen>>
mermaidVars == <<mbMounted, mbProps, mbSvg, mbError, mbRenders, mbIssued, mbSettled, mbLast>>
toastVars == <<copySuccess, toastOps, toastTimers, toastCount, toastBy>>
vars == <<classifyVars, blockVars, copyVars, hostVars, appVars, prefVars, mermaidVars, toastVars>>

\* What the actions of one part leave alone: the variables of the other parts.
exceptClassify == <<blockVars, copyVars, hostVars, appVars, prefVars, mermaidVars, toastVars>>
exceptBlocks == <<classifyVars, copyVars, hostVars, appVars, prefVars, mermaidVars, toastVars>>
exceptCopy == <<classifyVars, blockVars, hostVars, appVars, prefVars, mermaidVars, toastVars>>
exceptApp == <<classifyVars, blockVars, copyVars, prefVars, mermaidVars, toastVars>>
exceptPrefs == <<classifyVars, blockVars, copyVars, hostVars, appVars, mermaidVars, toastVars>>
exceptMermaid == <<classifyVars, blockVars, copyVars, hostVars, appVars, prefVars, toastVars>>
exceptToast == <<classifyVars, blockVars, copyVars, hostVars, appVars, mermaidVars>>

\* The parts a specification does not exercise stay in these states.
ClassifyIdle ==
    /\ ctext = <<>>
    /\ cres = <<>>

BlocksIdle ==
    /\ blk = [comp |-> "none"]
    /\ blkOut = <<>>

CopyIdle ==
    /\ hasClipboard = FALSE
    /\ clips = <<>>
    /\ bodyTextareas = 0

AppIdle ==
    /\ hostSel = [tableId |-> "null", fieldId |-> "null", recordId |-> "null"]
    /\ hostTheme = "LIGHT"
    /\ themeReply = <<>>
    /\ themeNotes = <<>>
    /\ initPc = "getTheme"
    /\ theme = "LIGHT"
    /\ cellInfo = <<>>
    /\ loading = FALSE
    /\ error = "null"
    /\ flows = <<>>

PrefsIdle ==
    /\ appLoaded = TRUE
    /\ storage = "medium"
    /\ fontSize = "medium"
    /\ showFontMenu = FALSE
    /\ showDownloadMenu = FALSE
    /\ savedAtLoad = "null"
    /\ lastChosen = "none"

ToastIdle ==
    /\ copySuccess = "null"
    /\ toastOps = <<>>
    /\ toastTimers = <<>>
    /\ toastCount = 0
    /\ toastBy = 0

MermaidIdle ==
    /\ mbMounted = FALSE
    /\ mbProps = [origin |-> "none", code |-> "", theme |-> "LIGHT"]
    /\ mbSvg = <<>>
    /\ mbError = "null"
    /\ mbRenders = <<>>
    /\ mbIssued = 0
    /\ mbSettled = FALSE
    /\ mbLast = "none"

-----------------------------------------------------------------------------
(* Bounds of the model                                                     *)

MaxWs == 1          \* longest run of leading white space put before a text
MaxSuffix == 2      \* longest suffix appended to a text
MaxKids == 2        \* most child nodes of a <code> element
MaxCopies == 3      \* most invocations of copyToClipboard in one run
MaxFlows == 2       \* most invocations of fetchCellContent in one run
MaxRenders == 3     \* most mermaid.render calls in one run
MaxNotes == 1       \* most theme-change events in flight at a time
MaxToasts == 3      \* most feedback actions (copy, download) in one run

-----------------------------------------------------------------------------
(* JavaScript string primitives                                            *)

SeqsUpTo(S, n) == UNION {[1..m -> S] : m \in 0..n}

\* The white space String.prototype.trim removes (the characters the model uses).
WhiteSpace == {" ", "\n", "\t"}

UpperCase == <<"A","B","C","D","E","F","G","H","I","J","K","L","M",
               "N","O","P","Q","R","S","T","U","V","W","X","Y","Z">>
LowerCase == <<"a","b","c","d","e","f","g","h","i","j","k","l","m",
               "n","o","p","q","r","s","t","u","v","w","x","y","z">>
Digits == {"0","1","2","3","4","5","6","7","8","9"}

\* \w of a JavaScript regular expression: [A-Za-z0-9_]
IsWordChar(c) ==
    \/ \E i \in 1..26 : UpperCase[i] = c \/ LowerCase[i] = c
    \/ c \in Digits
    \/ c = "_"

LowerChar(c) ==
    IF \E i \in 1..26 : UpperCase[i] = c
    THEN LowerCase[CHOOSE i \in 1..26 : UpperCase[i] = c]
    ELSE c

UpperChar(c) ==
    IF \E i \in 1..26 : LowerCase[i] = c
    THEN UpperCase[CHOOSE i \in 1..26 : LowerCase[i] = c]
    ELSE c

\* String.prototype.toLowerCase
ToLowerCase(s) == [i \in 1..Len(s) |-> LowerChar(s[i])]

\* String.prototype.toUpperCase
ToUpperCase(s) == [i \in 1..Len(s) |-> UpperChar(s[i])]

\* String.prototype.trim: white space is removed from both ends.
Trim(s) ==
    LET keep == {i \in 1..Len(s) : s[i] \notin WhiteSpace}
    IN  IF keep = {} THEN <<>>
        ELSE LET first == CHOOSE i \in keep : \A j \in keep : i <= j
                 last  == CHOOSE i \in keep : \A j \in keep : j <= i
             IN  SubSeq(s, first, last)

\* String.prototype.startsWith
StartsWith(s, k) == Len(k) <= Len(s) /\ SubSeq(s, 1, Len(k)) = k

\* String.prototype.includes
Includes(s, k) ==
    \E i \in 1..(Len(s) + 1) : i + Len(k) - 1 <= Len(s) /\ SubSeq(s, i, i + Len(k) - 1) = k

-----------------------------------------------------------------------------
(* The content classifier                                                  *)

MERMAID_KEYWORDS == <<
     <<"g","r","a","p","h"," ">>,
     <<"g","r","a","p","h","\n">>,
     <<"f","l","o","w","c","h","a","r","t"," ">>,
     <<"f","l","o","w","c","h","a","r","t","\n">>,
     <<"s","e","q","u","e","n","c","e","D","i","a","g","r","a","m">>,
     <<"c","l","a","s","s","D","i","a","g","r","a","m">>,
     <<"s","t","a","t","e","D","i","a","g","r","a","m">>,
     <<"e","r","D","i","a","g","r","a","m">>,
     <<"j","o","u","r","n","e","y">>,
     <<"g","a","n","t","t">>,
     <<"p","i","e"," ">>,
     <<"p","i","e","\n">>,
     <<"g","i","t","G","r","a","p","h">>,
     <<"m","i","n","d","m","a","p">>,
     <<"t","i","m","e","l","i","n","e">>,
     <<"q","u","a","d","r","a","n","t","C","h","a","r","t">>,
     <<"s","a","n","k","e","y">>,
     <<"x","y","c","h","a","r","t">>,
     <<"b","l","o","c","k","-","b","e","t","a">>,
     <<"C","4","C","o","n","t","e","x","t">>,
     <<"C","4","C","o","n","t","a","i","n","e","r">>,
     <<"C","4","C","o","m","p","o","n","e","n","t">>,
     <<"C","4","D","y","n","a","m","i","c">>,
     <<"C","4","D","e","p","l","o","y","m","e","n","t">>,
     <<"a","r","c","h","i","t","e","c","t","u","r","e">>,
     <<"z","e","n","u","m","l">>,
     <<"r","e","q","u","i","r","e","m","e","n","t">>,
     <<"p","a","c","k","e","t">>,
     <<"k","a","n","b","a","n">> >>

Keywords == {MERMAID_KEYWORDS[i] : i \in 1..Len(MERMAID_KEYWORDS)}

\* The slip of testing the keyword anywhere in the text instead of at its start.
isMermaidContentAnywhere(content) ==
    LET trimmed == Trim(content)
    IN  \E i \in 1..Len(MERMAID_KEYWORDS) :
            \/ Includes(trimmed, MERMAID_KEYWORDS[i])
            \/ Includes(ToLowerCase(trimmed), ToLowerCase(MERMAID_KEYWORDS[i]))

\* MERMAID_KEYWORDS.some(keyword => trimmed.startsWith(keyword) ||
\*     trimmed.toLowerCase().startsWith(keyword.toLowerCase()))
isMermaidContent(content) ==
    LET trimmed == Trim(content)
    IN  \E i \in 1..Len(MERMAID_KEYWORDS) :
            \/ StartsWith(trimmed, MERMAID_KEYWORDS[i])
            \/ StartsWith(ToLowerCase(trimmed), ToLowerCase(MERMAID_KEYWORDS[i]))

-----------------------------------------------------------------------------
(* SpecClassify: isMermaidContent applied to the texts of a bounded set    *)

\* Texts that are no keyword: prose, the empty text, and keywords that lack
\* the space or line break the list asks for.
OtherHeads == {
    <<>>,
    <<"h","e","l","l","o"," ","w","o","r","l","d">>,
    <<"g","r","a","p","h">>,
    <<"g","r","a","p","h","q","l">>,
    <<"p","i","e">> }

Heads == Keywords \cup {ToUpperCase(k) : k \in Keywords} \cup OtherHeads

\* What may stand before the head: nothing, or prose that puts the head
\* later in the document.
Leads == {<<>>, <<"x">>, <<"#"," ">>}

SuffixChars == {" ", "\n", "T"}

Texts ==
    {w \o l \o h \o s :
        w \in SeqsUpTo({" ", "\n"}, MaxWs), l \in Leads, h \in Heads,
        s \in SeqsUpTo(SuffixChars, MaxSuffix)}

ClassifyInit ==
    /\ ctext \in Texts
    /\ cres = <<>>
    /\ BlocksIdle /\ CopyIdle /\ AppIdle /\ PrefsIdle /\ MermaidIdle /\ ToastIdle

Classify ==
    /\ cres = <<>>
    /\ cres' = <<isMermaidContent(ctext)>>
    /\ UNCHANGED <<ctext, exceptClassify>>

ClassifyNext == Classify

SpecClassify == ClassifyInit /\ [][ClassifyNext]_vars

\* ---- Claims about the classifier (checked under SpecClassify) ----

\* t is white space, then a keyword of the list, then anything.
IsKeywordText(t) ==
    \E n \in 0..Len(t) :
        /\ \A i \in 1..n : t[i] \in WhiteSpace
        /\ \E k \in Keywords : StartsWith(SubSeq(t, n + 1, Len(t)), k)

\* t, as given, starts with a keyword of the list.
StartsWithKeyword(t) == \E k \in Keywords : StartsWith(t, k)

\* t, trimmed and lower-cased, starts with a lower-cased keyword of the list.
StartsWithKeywordTrimmedAnyCase(t) ==
    \E k \in Keywords : StartsWith(ToLowerCase(Trim(t)), ToLowerCase(k))

\* t holds a keyword of the list somewhere after its start.
HasKeywordLater(t) ==
    \E k \in Keywords : \E i \in 2..Len(t) : StartsWith(SubSeq(t, i, Len(t)), k)

\* C7 (as claimed): for every keyword k of the list, every suffix s and every
\* leading white space w, isMermaidContent(w + k + s) is true.
C7_KeywordTextIsMermaid ==
    (cres # <<>> /\ IsKeywordText(ctext)) => cres[1] = TRUE

\* C8 (as claimed): isMermaidContent is false for the empty text and for
\* every text that does not start with a keyword of the list.
C8_Original_NoKeywordStartIsFalse ==
    (cres # <<>> /\ ~StartsWithKeyword(ctext)) => cres[1] = FALSE

\* C8 (amended): isMermaidContent is false for the empty text and for every
\* text whose trimmed, lower-cased form does not start with a lower-cased
\* keyword of the list, also when a keyword stands later in the text.
C8_NoKeywordStartIsFalse ==
    (cres # <<>> /\ ~StartsWithKeywordTrimmedAnyCase(ctext)) => cres[1] = FALSE

\* C8 witness: a classified text with a keyword only later in it, and the
\* classified empty text.
C8_Witness ==
    /\ cres = <<FALSE>>
    /\ HasKeywordLater(ctext)
    /\ ~StartsWithKeywordTrimmedAnyCase(ctext)

-----------------------------------------------------------------------------
(* Code blocks inside the generic Markdown path: CodeBlock and PreBlock    *)

Str_language == <<"l","a","n","g","u","a","g","e","-">>
Str_mermaid == <<"m","e","r","m","a","i","d">>
Str_undefined == <<"u","n","d","e","f","i","n","e","d">>
Str_objectObject == <<"[","o","b","j","e","c","t"," ","O","b","j","e","c","t","]">>

\* The rest of s from position i on.
From(s, i) == SubSeq(s, i, Len(s))

\* /language-(\w+)/.exec(className): the capture of the leftmost match, the
\* longest run of word characters after "language-"; <<>> when nothing
\* matches (the source then takes language = '').
LanguageOf(className) ==
    LET at == {i \in 1..Len(className) :
                  /\ StartsWith(From(className, i), Str_language)
                  /\ i + Len(Str_language) <= Len(className)
                  /\ IsWordChar(className[i + Len(Str_language)])}
    IN  IF at = {} THEN <<>>
        ELSE LET i == CHOOSE a \in at : \A b \in at : a <= b
                 from == i + Len(Str_language)
                 ends == {e \in from..Len(className) :
                             \A j \in from..e : IsWordChar(className[j])}
                 to == CHOOSE e \in ends : \A f \in ends : f <= e
             IN  SubSeq(className, from, to)

\* s.replace(/\n$/, ''): one line break at the very end is removed.
StripFinalNewline(s) ==
    IF Len(s) > 0 /\ s[Len(s)] = "\n" THEN SubSeq(s, 1, Len(s) - 1) ELSE s

\* String(node) of one React node: a text is itself, an element is an object.
StringOfNode(n) == IF n.type = "#text" THEN n.text ELSE Str_objectObject

RECURSIVE JoinNodes(_)
JoinNodes(kids) ==
    IF Len(kids) = 0 THEN <<>>
    ELSE IF Len(kids) = 1 THEN StringOfNode(kids[1])
    ELSE StringOfNode(kids[1]) \o <<",">> \o JoinNodes(Tail(kids))

\* String(children): no child is undefined, one child is that node, several
\* children are an array, which String joins with commas.
StringOf(kids) == IF Len(kids) = 0 THEN Str_undefined ELSE JoinNodes(kids)

\* language === 'mermaid', language being the capture of the expression.
IsMermaidLanguage(className) == LanguageOf(className) = Str_mermaid

\* CodeBlock({className, children, theme})
CodeBlock(className, kids) ==
    LET code == StripFinalNewline(StringOf(kids))
    IN  IF IsMermaidLanguage(className)
        THEN [kind |-> "MermaidBlock", code |-> code]
        ELSE [kind |-> "code", code |-> <<>>]

\* PreBlock({children, theme}): children are the nodes inside the <pre>.
PreBlock(children) ==
    LET found == {i \in 1..Len(children) : children[i].type = "code"}
    IN  IF found # {}
        THEN LET codeChild == children[CHOOSE i \in found : \A j \in found : i <= j]
                 code == StripFinalNewline(StringOf(codeChild.kids))
             IN  IF IsMermaidLanguage(codeChild.className)
                 THEN [kind |-> "MermaidBlock", code |-> code]
                 ELSE [kind |-> "code-block-wrapper", code |-> code]
        ELSE [kind |-> "pre", code |-> <<>>]

-----------------------------------------------------------------------------
(* SpecBlocks: the two components applied to bounded sets of nodes         *)

ClassNames == {
    <<>>,
    Str_mermaid,
    Str_language,
    Str_language \o Str_mermaid,
    <<"h","l","j","s"," ">> \o Str_language \o Str_mermaid,
    Str_language \o <<"j","s">>,
    <<"h","l","j","s"," ">> \o Str_language \o <<"j","s">>,
    Str_language \o Str_mermaid \o <<"-","x">>,
    Str_language \o Str_mermaid \o <<"j","s">> }

\* The nodes inside a <code> element: texts, and the <span> elements that
\* syntax highlighting puts around tokens.
Leaves == {
    [type |-> "#text", text |-> <<"a">>],
    [type |-> "#text", text |-> <<"a","\n">>],
    [type |-> "#text", text |-> <<"\n">>],
    [type |-> "span", text |-> <<"k">>] }

KidLists == SeqsUpTo(Leaves, MaxKids)

\* The element types a child of <pre> can have: the host element 'code',
\* another host element, or a component.
ChildTypes == {"code", "div", "component"}

PreChildren ==
    {<<>>} \cup
    {<<[type |-> t, className |-> c, kids |-> k]>> :
        t \in ChildTypes, c \in ClassNames, k \in KidLists}

BlockInputs ==
    {[comp |-> "PreBlock", children |-> ch] : ch \in PreChildren} \cup
    {[comp |-> "CodeBlock", className |-> c, kids |-> k] :
        c \in ClassNames, k \in KidLists}

BlocksInit ==
    /\ blk \in BlockInputs
    /\ blkOut = <<>>
    /\ ClassifyIdle /\ CopyIdle /\ AppIdle /\ PrefsIdle /\ MermaidIdle /\ ToastIdle

RenderPreBlock ==
    /\ blkOut = <<>>
    /\ blk.comp = "PreBlock"
    /\ blkOut' = <<PreBlock(blk.children)>>
    /\ UNCHANGED <<blk, exceptBlocks>>

RenderCodeBlock ==
    /\ blkOut = <<>>
    /\ blk.comp = "CodeBlock"
    /\ blkOut' = <<CodeBlock(blk.className, blk.kids)>>
    /\ UNCHANGED <<blk, exceptBlocks>>

BlocksNext == RenderPreBlock \/ RenderCodeBlock

SpecBlocks == BlocksInit /\ [][BlocksNext]_vars

\* ---- Claims about the code blocks (checked under SpecBlocks) ----

\* The language tag a class name declares: what follows "language-" in the
\* class that starts with it, up to the next white space.
DeclaredTag(className) ==
    LET at == {i \in 1..Len(className) :
                  /\ StartsWith(From(className, i), Str_language)
                  /\ (i = 1 \/ className[i - 1] \in WhiteSpace)}
    IN  IF at = {} THEN <<>>
        ELSE LET i == CHOOSE a \in at : \A b \in at : a <= b
                 from == i + Len(Str_language)
                 stops == {e \in from..Len(className) : className[e] \in WhiteSpace}
                 to == IF stops = {} THEN Len(className)
                       ELSE (CHOOSE e \in stops : \A f \in stops : e <= f) - 1
             IN  SubSeq(className, from, to)

\* The code of a block: the text of the nodes inside its <code> element.
RECURSIVE TextContent(_)
TextContent(kids) ==
    IF Len(kids) = 0 THEN <<>> ELSE kids[1].text \o TextContent(Tail(kids))

\* The <code> child and its props, as the rendered component sees them.
BlkIsCodeInPre == blk.comp = "PreBlock" /\ Len(blk.children) = 1 /\ blk.children[1].type = "code"
BlkClassName == IF blk.comp = "PreBlock" THEN blk.children[1].className ELSE blk.className
BlkKids == IF blk.comp = "PreBlock" THEN blk.children[1].kids ELSE blk.kids

\* C10 (as claimed): a code block goes to the diagram renderer iff its
\* declared language tag is 'mermaid'; every other code block inside a <pre>
\* is wrapped with a copy button that copies the block's code without its
\* final line break; a <pre> that holds no code block is rendered as a <pre>.
C10_CodeBlockDispatch ==
    blkOut # <<>> =>
        /\ (BlkIsCodeInPre \/ blk.comp = "CodeBlock") =>
              (blkOut[1].kind = "MermaidBlock" <=> DeclaredTag(BlkClassName) = Str_mermaid)
        /\ (BlkIsCodeInPre /\ DeclaredTag(BlkClassName) # Str_mermaid) =>
              /\ blkOut[1].kind = "code-block-wrapper"
              /\ blkOut[1].code = StripFinalNewline(TextContent(BlkKids))
        /\ (blk.comp = "PreBlock" /\ ~BlkIsCodeInPre) => blkOut[1].kind = "pre"

-----------------------------------------------------------------------------
(* copyToClipboard                                                         *)

\* The texts handed to copyToClipboard.
CopyTexts == {<<>>, <<"a">>, <<"#"," ","a","\n">>}

\* What document.execCommand('copy') can do.
ExecOutcomes == {"true", "false", "throws"}

\* The slip of leaving the fallback outside a try block: a throwing copy
\* command rejects the promise.
FallbackResultUncaught(exec) == IF exec = "throws" THEN "rejected" ELSE exec

\* The slip of returning true after the fallback whatever the command said.
FallbackResultIgnoringCommand(exec) == "true"

\* try { ...; const successful = document.execCommand('copy'); ...;
\*       return successful; } catch (err) { return false; }
FallbackResult(exec) == IF exec = "throws" THEN "false" ELSE exec

\* The textareas left in document.body by the fallback: one is appended,
\* and removed again on the line after the copy command.
FallbackTextareas(n, exec) == IF exec = "throws" THEN n + 1 ELSE n

\* The fallback path of invocation c of the invocations cs, entered because
\* the API was `api`, the copy command doing `exec`.
Fallback(cs, c, api, exec) ==
    /\ clips' = [cs EXCEPT ![c] = [@ EXCEPT !.pc = "done", !.api = api, !.fallback = TRUE,
                                            !.exec = exec, !.result = FallbackResult(exec)]]
    /\ bodyTextareas' = FallbackTextareas(bodyTextareas, exec)

\* copyToClipboard(text) is called: with the clipboard API the write is
\* awaited, or throws at once; without it the fallback runs in the call.
CopyCall(text) ==
    /\ Len(clips) < MaxCopies
    /\ LET c == Len(clips) + 1
           new == [pc |-> "writing", text |-> text, api |-> "pending", fallback |-> FALSE,
                   exec |-> "none", result |-> "none"]
       IN  \/ /\ hasClipboard
              /\ clips' = Append(clips, new)
              /\ UNCHANGED bodyTextareas
           \/ /\ hasClipboard
              /\ \E exec \in ExecOutcomes : Fallback(Append(clips, new), c, "threw", exec)
           \/ /\ ~hasClipboard
              /\ \E exec \in ExecOutcomes : Fallback(Append(clips, new), c, "absent", exec)
    /\ UNCHANGED <<hasClipboard, exceptCopy>>

\* await navigator.clipboard.writeText(text) resolves: return true.
WriteResolved(c) ==
    /\ clips[c].pc = "writing"
    /\ clips' = [clips EXCEPT ![c] = [@ EXCEPT !.pc = "done", !.api = "resolved",
                                               !.result = "true"]]
    /\ UNCHANGED <<hasClipboard, bodyTextareas, exceptCopy>>

\* await navigator.clipboard.writeText(text) rejects: the catch block logs,
\* and the fallback runs.
WriteRejected(c) ==
    /\ clips[c].pc = "writing"
    /\ \E exec \in ExecOutcomes : Fallback(clips, c, "rejected", exec)
    /\ UNCHANGED <<hasClipboard, exceptCopy>>

CopyInit ==
    /\ hasClipboard \in BOOLEAN
    /\ clips = <<>>
    /\ bodyTextareas = 0
    /\ ClassifyIdle /\ BlocksIdle /\ AppIdle /\ PrefsIdle /\ MermaidIdle /\ ToastIdle

CopyNext ==
    \/ \E text \in CopyTexts : CopyCall(text)
    \/ \E c \in 1..Len(clips) : WriteResolved(c)
    \/ \E c \in 1..Len(clips) : WriteRejected(c)

SpecCopy == CopyInit /\ [][CopyNext]_vars

\* ---- Claims about copyToClipboard (checked under SpecCopy) ----

\* C3: copyToClipboard never raises to its caller: whatever the clipboard
\* API and the legacy copy command do, the promise of every finished
\* invocation is resolved with a boolean, never rejected.
C3_CopyNeverRejects ==
    \A c \in 1..Len(clips) :
        /\ clips[c].result # "rejected"
        /\ clips[c].pc = "done" => clips[c].result \in {"true", "false"}

\* C3 witness: an invocation whose clipboard write was rejected and whose
\* copy command threw has finished, resolved with false.
C3_Witness ==
    \E c \in 1..Len(clips) :
        /\ clips[c].pc = "done"
        /\ clips[c].api = "rejected"
        /\ clips[c].exec = "throws"
        /\ clips[c].result = "false"

\* C4: without the clipboard API, or when its write fails, the value
\* returned is the outcome of the legacy copy command (true when it
\* succeeds, false when it does not); when the write succeeds the value is
\* true and the fallback path is not taken.
C4_FallbackReportsCommand ==
    \A c \in 1..Len(clips) :
        clips[c].pc = "done" =>
            /\ clips[c].api \in {"absent", "rejected", "threw"} =>
                  /\ clips[c].fallback
                  /\ clips[c].result = (IF clips[c].exec = "true" THEN "true" ELSE "false")
            /\ clips[c].api = "resolved" =>
                  /\ clips[c].result = "true"
                  /\ ~clips[c].fallback
                  /\ clips[c].exec = "none"
            /\ clips[c].api \in {"absent", "rejected", "threw", "resolved"}
            /\ clips[c].api = "absent" <=> ~hasClipboard

\* C4 witness: without the API one invocation has returned true after a
\* succeeding copy command and another false after a failing one.
C4_Witness ==
    /\ ~hasClipboard
    /\ \E c \in 1..Len(clips) :
          clips[c].pc = "done" /\ clips[c].exec = "true" /\ clips[c].result = "true"
    /\ \E c \in 1..Len(clips) :
          clips[c].pc = "done" /\ clips[c].exec = "false" /\ clips[c].result = "false"

-----------------------------------------------------------------------------
(* The host: tables, fields, cells and the selection                       *)

\* The members of the SDK's FieldType the model tells apart: the two the
\* plugin accepts and two it does not.
FieldTypes == {"Text", "Url", "Number", "SingleSelect"}

Str_graphTD == <<"g","r","a","p","h"," ","T","D","\n","A","-","-",">","B">>
Str_link == <<"h","t","t","p",":","/","/","x">>

\* What getSelection() can resolve with: whole selections, and selections
\* that lack an id.
Selections == {
    [tableId |-> "tbl1", fieldId |-> "fldText", recordId |-> "rec1"],
    [tableId |-> "tbl1", fieldId |-> "fldText", recordId |-> "rec2"],
    [tableId |-> "tbl1", fieldId |-> "fldUrl", recordId |-> "rec1"],
    [tableId |-> "tbl1", fieldId |-> "fldNumber", recordId |-> "rec1"],
    [tableId |-> "tbl1", fieldId |-> "fldSelect", recordId |-> "rec1"],
    [tableId |-> "tbl1", fieldId |-> "fldText", recordId |-> "null"] }

\* table.getName()
HostTableName(tableId) == "Table 1"

\* field.getMeta()
HostFieldMeta(fieldId) ==
    CASE fieldId = "fldText" -> [name |-> "Notes", type |-> "Text"]
      [] fieldId = "fldUrl" -> [name |-> "Link", type |-> "Url"]
      [] fieldId = "fldNumber" -> [name |-> "Count", type |-> "Number"]
      [] OTHER -> [name |-> "Status", type |-> "SingleSelect"]

\* field.getValue(recordId): a text cell is an array of runs (none in an
\* empty cell), a URL cell an object with text and link, here without text.
HostCellValue(fieldId, recordId) ==
    CASE fieldId = "fldText" /\ recordId = "rec1" ->
            [kind |-> "array", runs |-> <<SubSeq(Str_graphTD, 1, 6), From(Str_graphTD, 7)>>]
      [] fieldId = "fldText" /\ recordId = "rec2" ->
            [kind |-> "array", runs |-> <<>>]
      [] fieldId = "fldUrl" /\ recordId = "rec1" ->
            [kind |-> "object", text |-> <<>>, link |-> Str_link]
      [] OTHER -> [kind |-> "null"]

-----------------------------------------------------------------------------
(* The snapshot                                                            *)

RECURSIVE Concat(_)
Concat(runs) == IF Len(runs) = 0 THEN <<>> ELSE runs[1] \o Concat(Tail(runs))

\* The content fetchCellContent takes from a cell value: the runs of a text
\* cell joined, the text of a URL cell or else its link, a string as it is,
\* and '' for anything else.
CellContent(fieldType, cellValue) ==
    IF fieldType = "Text"
    THEN CASE cellValue.kind = "array" -> Concat(cellValue.runs)
           [] cellValue.kind = "string" -> cellValue.value
           [] OTHER -> <<>>
    ELSE CASE cellValue.kind = "object" ->
                IF cellValue.text # <<>> THEN cellValue.text ELSE cellValue.link
           [] cellValue.kind = "string" -> cellValue.value
           [] OTHER -> <<>>

\* The slip of reading the record id from the selection of the moment.
SnapshotOfCurrentSelection(sel) ==
    LET meta == HostFieldMeta(sel.fieldId)
    IN  [tableId |-> sel.tableId,
         tableName |-> HostTableName(sel.tableId),
         fieldId |-> sel.fieldId,
         fieldName |-> meta.name,
         recordId |-> hostSel.recordId,
         content |-> CellContent(meta.type, HostCellValue(sel.fieldId, hostSel.recordId)),
         fieldType |-> meta.type]

\* The object fetchCellContent hands to setCellInfo for the selection sel.
Snapshot(sel) ==
    LET meta == HostFieldMeta(sel.fieldId)
    IN  [tableId |-> sel.tableId,
         tableName |-> HostTableName(sel.tableId),
         fieldId |-> sel.fieldId,
         fieldName |-> meta.name,
         recordId |-> sel.recordId,
         content |-> CellContent(meta.type, HostCellValue(sel.fieldId, sel.recordId)),
         fieldType |-> meta.type]

-----------------------------------------------------------------------------
(* Preferences: the font size kept in localStorage, and the two menus      *)

FONT_SIZE_MAP == [small |-> 12, medium |-> 14, large |-> 16, xlarge |-> 18]

FontSizes == DOMAIN FONT_SIZE_MAP

\* What localStorage can hold under the key when the page loads: nothing,
\* the empty string, a bucket, a string that is no bucket.
StoredValues == {"null", ""} \cup FontSizes \cup {"huge"}

\* The slip of starting from the default whatever is stored.
InitialFontSizeDefaultOnly(saved) == "medium"

\* useState(() => { const saved = localStorage.getItem(...);
\*                  return (saved as FontSize) || 'medium'; })
InitialFontSize(saved) == IF saved \in {"null", ""} THEN "medium" ELSE saved

\* useEffect(() => localStorage.setItem(key, fontSize), [fontSize]): the
\* effect runs after the first render and after a render that changed
\* fontSize.
StoredAfterRender(stored, before, after) == IF before # after THEN after ELSE stored

\* The header with the two dropdown containers is rendered with a snapshot.
HeaderRendered == appLoaded /\ cellInfo # <<>>

\* The page loads: the App component mounts.
Load ==
    /\ ~appLoaded
    /\ appLoaded' = TRUE
    /\ savedAtLoad' = storage
    /\ fontSize' = InitialFontSize(storage)
    /\ storage' = InitialFontSize(storage)
    /\ showFontMenu' = FALSE
    /\ showDownloadMenu' = FALSE
    /\ UNCHANGED <<lastChosen, exceptPrefs>>

\* The page is closed or reloaded: the component state is gone, the stored
\* value stays.
Unload ==
    /\ appLoaded
    /\ appLoaded' = FALSE
    /\ fontSize' = "medium"
    /\ showFontMenu' = FALSE
    /\ showDownloadMenu' = FALSE
    /\ cellInfo' = <<>>
    /\ UNCHANGED <<storage, savedAtLoad, lastChosen, initPc, theme, loading, error, flows,
                   classifyVars, blockVars, copyVars, hostVars, mermaidVars, toastVars>>

\* The snapshots the header is rendered with in this part.
HeaderSnapshots ==
    {<<Snapshot([tableId |-> "tbl1", fieldId |-> "fldText", recordId |-> "rec1"])>>}

\* A fetch flow writes the snapshot: setCellInfo(null) or setCellInfo({...}).
\* (Spec has the flows step by step; of what they write, cellInfo alone
\* decides whether the header with the two menus is rendered.)
SetCellInfo(info) ==
    /\ appLoaded
    /\ info # cellInfo
    /\ cellInfo' = info
    /\ UNCHANGED <<prefVars, initPc, theme, loading, error, flows,
                   classifyVars, blockVars, copyVars, hostVars, mermaidVars, toastVars>>

\* changeFontSize(size), from an item of the open font menu
ChangeFontSize(size) ==
    /\ HeaderRendered
    /\ showFontMenu
    /\ fontSize' = size
    /\ showFontMenu' = FALSE
    /\ storage' = StoredAfterRender(storage, fontSize, size)
    /\ lastChosen' = size
    /\ UNCHANGED <<appLoaded, showDownloadMenu, savedAtLoad, exceptPrefs>>

\* onClick={() => setShowFontMenu(!showFontMenu)}
ToggleFontMenu ==
    /\ HeaderRendered
    /\ showFontMenu' = ~showFontMenu
    /\ UNCHANGED <<appLoaded, storage, fontSize, showDownloadMenu, savedAtLoad, lastChosen,
                   exceptPrefs>>

\* onClick={() => setShowDownloadMenu(!showDownloadMenu)}
ToggleDownloadMenu ==
    /\ HeaderRendered
    /\ showDownloadMenu' = ~showDownloadMenu
    /\ UNCHANGED <<appLoaded, storage, fontSize, showFontMenu, savedAtLoad, lastChosen,
                   exceptPrefs>>

\* Where a mousedown can land.
MouseTargets == {"fontMenu", "downloadMenu", "elsewhere"}

\* if (downloadMenuRef.current && !downloadMenuRef.current.contains(target))
\*     setShowDownloadMenu(false);
\* a ref is set while its container is rendered, and null otherwise.
DownloadMenuAfterMouseDown(target) ==
    IF HeaderRendered /\ target # "downloadMenu" THEN FALSE ELSE showDownloadMenu

\* if (fontMenuRef.current && !fontMenuRef.current.contains(target))
\*     setShowFontMenu(false);
FontMenuAfterMouseDown(target) ==
    IF HeaderRendered /\ target # "fontMenu" THEN FALSE ELSE showFontMenu

\* handleClickOutside(event)
HandleClickOutside(target) ==
    /\ appLoaded
    /\ showDownloadMenu' = DownloadMenuAfterMouseDown(target)
    /\ showFontMenu' = FontMenuAfterMouseDown(target)
    /\ UNCHANGED <<appLoaded, storage, fontSize, savedAtLoad, lastChosen, exceptPrefs>>

PrefsInit ==
    /\ appLoaded = FALSE
    /\ storage \in StoredValues
    /\ fontSize = "medium"
    /\ showFontMenu = FALSE
    /\ showDownloadMenu = FALSE
    /\ savedAtLoad = "null"
    /\ lastChosen = "none"
    /\ hostSel = [tableId |-> "null", fieldId |-> "null", recordId |-> "null"]
    /\ hostTheme = "LIGHT"
    /\ themeReply = <<>>
    /\ themeNotes = <<>>
    /\ initPc = "getTheme"
    /\ theme = "LIGHT"
    /\ cellInfo = <<>>
    /\ loading = FALSE
    /\ error = "null"
    /\ flows = <<>>
    /\ ClassifyIdle /\ BlocksIdle /\ CopyIdle /\ MermaidIdle /\ ToastIdle

PrefsNext ==
    \/ Load
    \/ Unload
    \/ \E size \in FontSizes : ChangeFontSize(size)
    \/ ToggleFontMenu
    \/ ToggleDownloadMenu
    \/ \E target \in MouseTargets : HandleClickOutside(target)
    \/ \E info \in {<<>>} \cup HeaderSnapshots : SetCellInfo(info)

SpecPrefs == PrefsInit /\ [][PrefsNext]_vars

\* ---- Claims about the preferences (checked under SpecPrefs) ----

\* C5: the font size persists. After changeFontSize(s) the value stored
\* under the key is s, and it stays the active font size over reloads,
\* without the bucket being chosen again; when nothing is stored at load,
\* the font size starts as the default, medium.
C5_FontSizePersists ==
    /\ lastChosen # "none" =>
          /\ storage = lastChosen
          /\ appLoaded => fontSize = lastChosen
    /\ (appLoaded /\ savedAtLoad = "null" /\ lastChosen = "none") => fontSize = "medium"

\* C5 witness: large was chosen before the last load, which read it back
\* from the storage, and it is the active font size.
C5_Witness ==
    /\ appLoaded
    /\ lastChosen = "large"
    /\ savedAtLoad = "large"
    /\ fontSize = "large"
    /\ storage = "large"

-----------------------------------------------------------------------------
(* MermaidBlock                                                            *)

\* The code a MermaidBlock is given. In place of a whole document
\* (origin "document") it is the trimmed content of a text that starts with
\* a keyword, which is not empty; from a fenced block (origin "fence") it
\* can be empty.
DocumentCodes == {"flowchart TD\nA-->B", "pie title x"}
FenceCodes == DocumentCodes \cup {""}
CodesOf(origin) == IF origin = "document" THEN DocumentCodes ELSE FenceCodes

Themes == {"LIGHT", "DARK"}

\* The slip of leaving the error unset when the render fails.
ErrorAfterRejectionDropped(previous) == previous

\* catch (err) { ...; setError(<the render-failed message>); }
ErrorAfterRejection(previous) == "render failed"

IssuedAfterEffect(code) == IF code = "" THEN mbIssued ELSE mbIssued + 1

\* The effect of [code, theme]: nothing for an empty code, else one more
\* pending mermaid.render(id, code), issued under the theme; n tells the
\* promises of the calls apart (the n-th call of the run).
RendersAfterEffect(pending, code, thm) ==
    IF code = ""
    THEN pending
    ELSE Append(pending, [code |-> code, theme |-> thm, n |-> IssuedAfterEffect(code)])

\* What the component returns: the error block with the code, or the
\* container whose inner HTML is svg.
MermaidView ==
    IF mbError # "null"
    THEN [kind |-> "mermaid-error", message |-> mbError, source |-> mbProps.code, html |-> <<>>]
    ELSE [kind |-> "mermaid-container", message |-> "null", source |-> "", html |-> mbSvg]

\* The component mounts: fresh state, and the effect runs.
MbMount(origin, code, thm) ==
    /\ ~mbMounted
    /\ mbIssued < MaxRenders
    /\ mbMounted' = TRUE
    /\ mbProps' = [origin |-> origin, code |-> code, theme |-> thm]
    /\ mbSvg' = <<>>
    /\ mbError' = "null"
    /\ mbRenders' = RendersAfterEffect(<<>>, code, thm)
    /\ mbIssued' = IssuedAfterEffect(code)
    /\ mbSettled' = FALSE
    /\ mbLast' = "mounted"
    /\ UNCHANGED exceptMermaid

\* The parent renders the component with another code or theme: the state
\* is kept, and the effect runs again.
MbPropsChange(code, thm) ==
    /\ mbMounted
    /\ mbIssued < MaxRenders
    /\ <<code, thm>> # <<mbProps.code, mbProps.theme>>
    /\ mbProps' = [mbProps EXCEPT !.code = code, !.theme = thm]
    /\ mbRenders' = RendersAfterEffect(mbRenders, code, thm)
    /\ mbIssued' = IssuedAfterEffect(code)
    /\ mbLast' = "props"
    /\ UNCHANGED <<mbMounted, mbSvg, mbError, mbSettled, exceptMermaid>>

RemoveAt(q, i) == SubSeq(q, 1, i - 1) \o SubSeq(q, i + 1, Len(q))

\* const { svg } = await mermaid.render(...) resolves: setSvg(svg);
\* setError(null). The drawing is not empty.
MbRenderResolved(i) ==
    /\ mbMounted
    /\ i \in 1..Len(mbRenders)
    /\ mbSvg' = <<mbRenders[i]>>
    /\ mbError' = "null"
    /\ mbRenders' = RemoveAt(mbRenders, i)
    /\ mbSettled' = TRUE
    /\ mbLast' = "resolved"
    /\ UNCHANGED <<mbMounted, mbProps, mbIssued, exceptMermaid>>

\* await mermaid.render(...) rejects: the catch block sets the error.
MbRenderRejected(i) ==
    /\ mbMounted
    /\ i \in 1..Len(mbRenders)
    /\ mbError' = ErrorAfterRejection(mbError)
    /\ mbRenders' = RemoveAt(mbRenders, i)
    /\ mbSettled' = TRUE
    /\ mbLast' = "rejected"
    /\ UNCHANGED <<mbMounted, mbProps, mbSvg, mbIssued, exceptMermaid>>

\* The component unmounts: its state is gone, and what its pending renders
\* set later is set on no component.
MbUnmount ==
    /\ mbMounted
    /\ mbMounted' = FALSE
    /\ mbProps' = [origin |-> "none", code |-> "", theme |-> "LIGHT"]
    /\ mbSvg' = <<>>
    /\ mbError' = "null"
    /\ mbRenders' = <<>>
    /\ mbSettled' = FALSE
    /\ mbLast' = "unmounted"
    /\ UNCHANGED <<mbIssued, exceptMermaid>>

MermaidInit ==
    /\ MermaidIdle
    /\ ClassifyIdle /\ BlocksIdle /\ CopyIdle /\ AppIdle /\ PrefsIdle /\ ToastIdle

MermaidNext ==
    \/ \E origin \in {"document", "fence"}, thm \in Themes :
          \E code \in CodesOf(origin) : MbMount(origin, code, thm)
    \/ \E thm \in Themes : \E code \in CodesOf(mbProps.origin) : MbPropsChange(code, thm)
    \/ \E i \in 1..Len(mbRenders) : MbRenderResolved(i)
    \/ \E i \in 1..Len(mbRenders) : MbRenderRejected(i)
    \/ MbUnmount

SpecMermaid == MermaidInit /\ [][MermaidNext]_vars

\* ---- Claims about the diagram block (checked under SpecMermaid) ----

\* The block shows a drawing, or the error block with the source.
MbShowsDrawingOrError ==
    \/ MermaidView.kind = "mermaid-container" /\ MermaidView.html # <<>>
    \/ /\ MermaidView.kind = "mermaid-error"
       /\ MermaidView.message # "null"
       /\ MermaidView.source = mbProps.code
       /\ MermaidView.source # ""

\* C6 (as claimed): the block of a diagram document is never a blank panel:
\* in every state in which it is displayed it shows a non-empty drawing or
\* the error block with the source.
C6_Original_NeverBlank ==
    (mbMounted /\ mbProps.origin = "document") => MbShowsDrawingOrError

\* C6 (amended): the block of a diagram document is an empty container only
\* until the first render of its mount has finished; from then on it shows
\* a non-empty drawing or the error block with the source, and right after
\* a failed render it shows the error indicator together with the source.
C6_NotBlankOnceRendered ==
    /\ (mbMounted /\ mbProps.origin = "document" /\ mbSettled) => MbShowsDrawingOrError
    /\ (mbMounted /\ mbProps.origin = "document" /\ mbLast = "rejected") =>
          /\ MermaidView.kind = "mermaid-error"
          /\ MermaidView.message # "null"
          /\ MermaidView.source = mbProps.code
    /\ (mbMounted /\ mbProps.origin = "document" /\ ~mbSettled) =>
          /\ mbRenders # <<>>
          /\ MermaidView.kind = "mermaid-container"
          /\ MermaidView.html = <<>>

\* C6 witness: the first render of a diagram document has failed, and the
\* block shows the error with the source.
C6_Witness ==
    /\ mbMounted
    /\ mbProps.origin = "document"
    /\ mbLast = "rejected"
    /\ mbSvg = <<>>
    /\ MermaidView.kind = "mermaid-error"
    /\ MermaidView.source = mbProps.code

-----------------------------------------------------------------------------
(* The App component: fetchCellContent, init and the subscriptions         *)

NullSelection == [tableId |-> "null", fieldId |-> "null", recordId |-> "null"]

\* The two messages of setError, named for what they say.
ErrUnsupported == "select a text or URL cell"

\* The slip of a catch block that sets no message.
ErrFetchFailedUnset == "null"

ErrFetchFailed == "fetching the cell content failed, retry"

\* !selection.tableId || !selection.fieldId || !selection.recordId
SelectionIncomplete(sel) ==
    sel.tableId = "null" \/ sel.fieldId = "null" \/ sel.recordId = "null"

\* The slip of taking every field type.
IsSupportedTypeAny(fieldType) == TRUE

\* !(fieldType !== FieldType.Text && fieldType !== FieldType.Url)
IsSupportedType(fieldType) == fieldType = "Text" \/ fieldType = "Url"

\* The slip of showing every non-empty content as Markdown.
ContentPaneMarkdownOnly(content) ==
    IF content = <<>> THEN {"empty-content"} ELSE {"markdown-body", "ReactMarkdown"}

\* The children of the content wrapper: the two branches of
\* {cellInfo.content ? (isMermaidContent(...) ? <MermaidBlock/> :
\* <ReactMarkdown/>) : <div className="empty-state"/>}.
ContentPane(content) ==
    IF content # <<>>
    THEN {"markdown-body"}
            \cup (IF isMermaidContent(content) THEN {"MermaidBlock"} ELSE {"ReactMarkdown"})
    ELSE {"empty-content"}

\* The elements App returns for a state: the spinner, the error message, the
\* empty-state prompt, and the snapshot with its content.
ViewOf(ld, err, info) ==
    (IF ld THEN {"loading"} ELSE {})
        \cup (IF err # "null" THEN {"error-message"} ELSE {})
        \cup (IF ~ld /\ err = "null" /\ info = <<>> THEN {"EmptyState"} ELSE {})
        \cup (IF ~ld /\ err = "null" /\ info # <<>>
              THEN {"field-info"} \cup ContentPane(info[1].content)
              ELSE {})

View == ViewOf(loading, error, cellInfo)

\* The elements that show content of a cell.
ContentElements == {"field-info", "markdown-body", "MermaidBlock", "ReactMarkdown", "empty-content"}

\* The code handed to the MermaidBlock of a diagram document.
DocumentMermaidCode(content) == Trim(content)

\* The slip of starting a flow without setLoading(true).
StartFlowNotLoading(via) ==
    /\ Len(flows) < MaxFlows
    /\ flows' = Append(flows, [pc |-> "getSelection", via |-> via, sel |-> NullSelection,
                               calls |-> <<"getSelection">>, outcome |-> "pending"])
    /\ error' = "null"
    /\ UNCHANGED <<cellInfo, loading>>

\* fetchCellContent() is called: setLoading(true); setError(null); and
\* getSelection() is awaited.
StartFlow(via) ==
    /\ Len(flows) < MaxFlows
    /\ flows' = Append(flows, [pc |-> "getSelection", via |-> via, sel |-> NullSelection,
                               calls |-> <<"getSelection">>, outcome |-> "pending"])
    /\ loading' = TRUE
    /\ error' = "null"
    /\ UNCHANGED cellInfo

\* The slip of asking for the cell value at once.
AwaitValueAtOnce(i, call) ==
    flows' = [flows EXCEPT ![i] = [@ EXCEPT !.pc = "getValue", !.calls = Append(@, "getValue")]]

\* Flow i goes on to await the host call `call`.
Await(i, call) ==
    flows' = [flows EXCEPT ![i] = [@ EXCEPT !.pc = call, !.calls = Append(@, call)]]

\* Flow i returns with `outcome`; the finally block has set loading false.
Finish(i, outcome) ==
    /\ flows' = [flows EXCEPT ![i] = [@ EXCEPT !.pc = "done", !.outcome = outcome]]
    /\ loading' = FALSE

\* The host answers the getTheme() call of init() with its theme of the
\* moment; the answer is then on its way to the plugin.
HostAnswersGetTheme ==
    /\ initPc = "getTheme"
    /\ themeReply = <<>>
    /\ themeReply' = <<hostTheme>>
    /\ UNCHANGED <<hostSel, hostTheme, themeNotes, appVars, exceptApp>>

\* await bitable.bridge.getTheme() resolves in init() with the host's
\* answer: setTheme, then fetchCellContent().
InitThemeResolved ==
    /\ initPc = "getTheme"
    /\ themeReply # <<>>
    /\ initPc' = "done"
    /\ theme' = themeReply[1]
    /\ StartFlow("init")
    /\ UNCHANGED <<hostVars, exceptApp>>

\* await bitable.bridge.getTheme() rejects: init() ends there.
InitThemeRejected ==
    /\ initPc = "getTheme"
    /\ initPc' = "rejected"
    /\ UNCHANGED <<theme, cellInfo, loading, error, flows, hostVars, exceptApp>>

\* The host changes its theme and sends the theme-change event.
HostThemeChange(thm) ==
    /\ thm # hostTheme
    /\ Len(themeNotes) < MaxNotes
    /\ hostTheme' = thm
    /\ themeNotes' = Append(themeNotes, thm)
    /\ UNCHANGED <<hostSel, themeReply, appVars, exceptApp>>

\* The slip of fetching the cell again when the theme changes.
ThemeChangeFetching ==
    /\ themeNotes # <<>>
    /\ theme' = Head(themeNotes)
    /\ themeNotes' = Tail(themeNotes)
    /\ StartFlow("theme")
    /\ UNCHANGED <<hostSel, hostTheme, themeReply, initPc, exceptApp>>

\* The oldest theme-change event in flight arrives; the onThemeChange
\* callback: setTheme(event.data.theme).
ThemeChange ==
    /\ themeNotes # <<>>
    /\ theme' = Head(themeNotes)
    /\ themeNotes' = Tail(themeNotes)
    /\ UNCHANGED <<hostSel, hostTheme, themeReply, initPc, cellInfo, loading, error, flows,
                   exceptApp>>

\* The user selects another cell; the onSelectionChange callback:
\* fetchCellContent().
SelectionChange(sel) ==
    /\ sel # hostSel
    /\ hostSel' = sel
    /\ StartFlow("selection")
    /\ UNCHANGED <<hostTheme, themeReply, themeNotes, initPc, theme, exceptApp>>

\* await bitable.base.getSelection() resolves with the host's selection.
SelectionResolved(i) ==
    /\ flows[i].pc = "getSelection"
    /\ IF SelectionIncomplete(hostSel)
       THEN /\ Finish(i, "noSelection")
            /\ cellInfo' = <<>>
            /\ UNCHANGED error
       ELSE /\ flows' = [flows EXCEPT ![i] = [@ EXCEPT !.pc = "getTableById", !.sel = hostSel,
                                                     !.calls = Append(@, "getTableById")]]
            /\ UNCHANGED <<cellInfo, loading, error>>
    /\ UNCHANGED <<initPc, theme, hostVars, exceptApp>>

\* await bitable.base.getTableById(...), table.getName() or
\* table.getFieldById(...) resolves: the next call is awaited.
StepResolved(i, call, next) ==
    /\ flows[i].pc = call
    /\ Await(i, next)
    /\ UNCHANGED <<initPc, theme, cellInfo, loading, error, hostVars, exceptApp>>

\* await field.getMeta() resolves: an unsupported type ends the flow with
\* the error, another type goes on to getValue.
MetaResolved(i) ==
    /\ flows[i].pc = "getMeta"
    /\ IF IsSupportedType(HostFieldMeta(flows[i].sel.fieldId).type)
       THEN /\ Await(i, "getValue")
            /\ UNCHANGED <<cellInfo, loading, error>>
       ELSE /\ Finish(i, "unsupported")
            /\ error' = ErrUnsupported
            /\ cellInfo' = <<>>
    /\ UNCHANGED <<initPc, theme, hostVars, exceptApp>>

\* await field.getValue(recordId) resolves: setCellInfo with the snapshot.
ValueResolved(i) ==
    /\ flows[i].pc = "getValue"
    /\ Finish(i, "ok")
    /\ cellInfo' = <<Snapshot(flows[i].sel)>>
    /\ UNCHANGED <<initPc, theme, error, hostVars, exceptApp>>

\* The host call flow i awaits is one that never resolves and never rejects:
\* the flow stays at its await.
CallHangs(i) ==
    /\ flows[i].pc \notin {"done", "hung"}
    /\ flows' = [flows EXCEPT ![i] = [@ EXCEPT !.pc = "hung"]]
    /\ UNCHANGED <<initPc, theme, cellInfo, loading, error, hostVars, exceptApp>>

\* The host call flow i awaits rejects: the catch block sets the error.
CallRejected(i) ==
    /\ flows[i].pc \notin {"done", "hung"}
    /\ Finish(i, "failed")
    /\ error' = ErrFetchFailed
    /\ UNCHANGED <<initPc, theme, cellInfo, hostVars, exceptApp>>

Init ==
    /\ hostSel \in Selections
    /\ hostTheme \in Themes
    /\ themeReply = <<>>
    /\ themeNotes = <<>>
    /\ initPc = "getTheme"
    /\ theme = "LIGHT"
    /\ cellInfo = <<>>
    /\ loading = FALSE
    /\ error = "null"
    /\ flows = <<>>
    /\ ClassifyIdle /\ BlocksIdle /\ CopyIdle /\ PrefsIdle /\ MermaidIdle /\ ToastIdle

Next ==
    \/ HostAnswersGetTheme
    \/ InitThemeResolved
    \/ InitThemeRejected
    \/ \E thm \in Themes : HostThemeChange(thm)
    \/ ThemeChange
    \/ \E sel \in Selections : SelectionChange(sel)
    \/ \E i \in 1..Len(flows) : SelectionResolved(i)
    \/ \E i \in 1..Len(flows) : StepResolved(i, "getTableById", "getName")
    \/ \E i \in 1..Len(flows) : StepResolved(i, "getName", "getFieldById")
    \/ \E i \in 1..Len(flows) : StepResolved(i, "getFieldById", "getMeta")
    \/ \E i \in 1..Len(flows) : MetaResolved(i)
    \/ \E i \in 1..Len(flows) : ValueResolved(i)
    \/ \E i \in 1..Len(flows) : CallRejected(i)
    \/ \E i \in 1..Len(flows) : CallHangs(i)

Spec == Init /\ [][Next]_vars

\* ---- Claims about the App component (checked under Spec) ----

Range(q) == {q[i] : i \in 1..Len(q)}

\* The field type of the selection flow i read.
FlowFieldType(i) == HostFieldMeta(flows[i].sel.fieldId).type

\* Flow i takes the step in which its getMeta() resolves, with a field type
\* that is neither Text nor Url.
UnsupportedMetaStep(i) ==
    /\ flows[i].pc = "getMeta"
    /\ flows'[i].pc \notin {"getMeta", "hung"}
    /\ flows'[i].outcome # "failed"
    /\ FlowFieldType(i) \notin {"Text", "Url"}

\* C1: when a fetch flow finds the field type to be neither Text nor Url it
\* sets the unsupported-field error, sets the snapshot to null, clears
\* loading and ends without ever fetching the cell value; the view of the
\* resulting state shows the error and no content, whatever the field type
\* and whatever snapshot was held before.
C1_UnsupportedFieldType ==
    /\ [][\A i \in 1..Len(flows) :
            UnsupportedMetaStep(i) =>
                /\ error' = ErrUnsupported
                /\ cellInfo' = <<>>
                /\ loading' = FALSE
                /\ flows'[i].pc = "done"
                /\ "getValue" \notin Range(flows'[i].calls)
                /\ "error-message" \in ViewOf(loading', error', cellInfo')
                /\ ViewOf(loading', error', cellInfo') \cap ContentElements = {}]_vars
    /\ [](\A i \in 1..Len(flows) :
            (flows[i].pc \notin {"getSelection"} /\ flows[i].sel # NullSelection
                /\ FlowFieldType(i) \notin {"Text", "Url"})
            => "getValue" \notin Range(flows[i].calls))

\* C1 witness: a flow put a snapshot in place, and a later flow that found
\* a Number field has replaced it with the error.
C1_Witness ==
    /\ Len(flows) = 2
    /\ flows[1].outcome = "ok"
    /\ flows[2].pc = "done"
    /\ flows[2].outcome = "unsupported"
    /\ FlowFieldType(2) = "Number"
    /\ flows[2].calls = <<"getSelection", "getTableById", "getName", "getFieldById", "getMeta">>
    /\ cellInfo = <<>>
    /\ error = ErrUnsupported
    /\ ~loading
    /\ View = {"error-message"}

\* What the state shows is what flow i produced.
ShowsResultOf(i) ==
    CASE flows[i].outcome = "ok" ->
            cellInfo = <<Snapshot(flows[i].sel)>> /\ error = "null"
      [] flows[i].outcome = "noSelection" -> cellInfo = <<>> /\ error = "null"
      [] flows[i].outcome = "unsupported" -> cellInfo = <<>> /\ error = ErrUnsupported
      [] flows[i].outcome = "failed" -> error = ErrFetchFailed
      [] OTHER -> FALSE

AllFlowsDone == flows # <<>> /\ \A i \in 1..Len(flows) : flows[i].pc = "done"

SelectionFlows == {i \in 1..Len(flows) : flows[i].via = "selection"}

\* C2 (as claimed): once every started fetch flow has completed, what is
\* displayed is what the flow started by the latest selection-change event
\* produced, in whatever order the overlapping flows completed.
C2_LatestSelectionDisplayed ==
    (AllFlowsDone /\ SelectionFlows # {}) =>
        LET latest == CHOOSE i \in SelectionFlows : \A j \in SelectionFlows : j <= i
        IN  ~loading /\ ShowsResultOf(latest)

\* The snapshot is displayed.
SnapshotDisplayed == ~loading /\ error = "null" /\ cellInfo # <<>>

\* C9: a displayed snapshot with non-empty content goes down exactly one
\* presentation path: the diagram renderer if and only if isMermaidContent
\* of the content is true, and the Markdown renderer otherwise.
C9_ExactlyOnePath ==
    (SnapshotDisplayed /\ cellInfo[1].content # <<>>) =>
        /\ "MermaidBlock" \in View <=> isMermaidContent(cellInfo[1].content)
        /\ "ReactMarkdown" \in View <=> ~isMermaidContent(cellInfo[1].content)
        /\ Cardinality(View \cap {"MermaidBlock", "ReactMarkdown"}) = 1
        /\ "empty-content" \notin View

\* C9 witness: the displayed snapshot is a diagram document, and the view
\* holds the diagram block and no Markdown renderer.
C9_Witness ==
    /\ SnapshotDisplayed
    /\ cellInfo[1].content = Str_graphTD
    /\ "MermaidBlock" \in View
    /\ "ReactMarkdown" \notin View

\* Flow i takes the step in which its getSelection() resolves with a
\* selection that lacks a table id, a field id or a record id.
NoSelectionStep(i) ==
    /\ flows[i].pc = "getSelection"
    /\ flows'[i].pc \notin {"getSelection", "hung"}
    /\ flows'[i].outcome # "failed"
    /\ SelectionIncomplete(hostSel)

\* C11 (as claimed): when the selection lacks an id, the fetch flow sets the
\* snapshot to null and loading to false, issues no further host call and
\* sets no error, and the view of the resulting state is the empty-state
\* prompt, without an error message.
C11_NoSelectionEmptyState ==
    [][\A i \in 1..Len(flows) :
          NoSelectionStep(i) =>
              /\ cellInfo' = <<>>
              /\ loading' = FALSE
              /\ flows'[i].pc = "done"
              /\ flows'[i].calls = <<"getSelection">>
              /\ error' = error
              /\ "EmptyState" \in ViewOf(loading', error', cellInfo')
              /\ "error-message" \notin ViewOf(loading', error', cellInfo')]_vars

\* Flow i takes the step in which the host call it awaits rejects.
RejectionStep(i) ==
    /\ flows[i].pc \notin {"done", "hung"}
    /\ flows'[i].outcome = "failed"

\* C12: when a host call of a fetch flow rejects, the flow sets the
\* fetch-failed message, clears loading, leaves the snapshot as it was and
\* ends: it issues no further host call and starts no other flow. While that
\* message is set the view shows it and no content.
C12_RejectionSetsFetchFailed ==
    /\ [][\A i \in 1..Len(flows) :
            RejectionStep(i) =>
                /\ error' = ErrFetchFailed
                /\ error' # "null"
                /\ loading' = FALSE
                /\ cellInfo' = cellInfo
                /\ flows'[i].pc = "done"
                /\ flows'[i].calls = flows[i].calls
                /\ Len(flows') = Len(flows)]_vars
    /\ [][\A i \in 1..Len(flows) :
            flows[i].outcome = "failed" => flows'[i] = flows[i]]_vars
    /\ [](error = ErrFetchFailed =>
            /\ "error-message" \in View
            /\ View \cap ContentElements = {})

\* C12 witness: with a snapshot in place, the getName() call of a later flow
\* has rejected; the snapshot is kept and the view is the error message.
C12_Witness ==
    /\ Len(flows) = 2
    /\ flows[1].outcome = "ok"
    /\ flows[2].outcome = "failed"
    /\ flows[2].calls = <<"getSelection", "getTableById", "getName">>
    /\ cellInfo = <<Snapshot(flows[1].sel)>>
    /\ error = ErrFetchFailed
    /\ ~loading
    /\ View = {"error-message"}

\* A theme-change event is delivered to the onThemeChange callback.
ThemeEventStep == themeNotes # <<>> /\ themeNotes' = Tail(themeNotes)

\* A selection-change event: the host's selection changes and the
\* onSelectionChange callback runs.
SelectionEventStep == hostSel' # hostSel

\* C13 (as claimed): every theme-change notification, like every
\* selection-change notification, starts a fetch flow.
C13_Original_ThemeChangeStartsFlow ==
    [][(ThemeEventStep \/ SelectionEventStep) => Len(flows') = Len(flows) + 1]_vars

\* C13 (amended): a selection-change notification starts a fetch flow, and a
\* snapshot is written only by a fetch flow that ends with its cell value,
\* as the fresh object built from that flow's own reads; a theme-change
\* notification only sets the theme: it starts no fetch flow and leaves
\* the snapshot, loading and the error as they are.
C13_OnlySelectionChangeStartsFlow ==
    /\ [][SelectionEventStep =>
            /\ Len(flows') = Len(flows) + 1
            /\ flows'[Len(flows')].pc = "getSelection"
            /\ flows'[Len(flows')].via = "selection"
            /\ loading'
            /\ error' = "null"]_vars
    /\ [][ThemeEventStep =>
            /\ theme' = Head(themeNotes)
            /\ flows' = flows
            /\ cellInfo' = cellInfo
            /\ loading' = loading
            /\ error' = error]_vars
    /\ [][(cellInfo' # cellInfo /\ cellInfo' # <<>>) =>
            \E i \in 1..Len(flows) :
                /\ flows[i].pc = "getValue"
                /\ flows'[i].outcome = "ok"
                /\ cellInfo' = <<Snapshot(flows[i].sel)>>]_vars

\* C13 witness: the theme-change event has been delivered (the theme is not
\* the one getTheme answered) with the snapshot of the init flow displayed,
\* and the init flow is still the only flow.
C13_Witness ==
    /\ initPc = "done"
    /\ themeReply = <<"LIGHT">>
    /\ hostTheme = "DARK"
    /\ themeNotes = <<>>
    /\ theme = "DARK"
    /\ Len(flows) = 1
    /\ flows[1].outcome = "ok"
    /\ cellInfo = <<Snapshot(flows[1].sel)>>
    /\ SnapshotDisplayed

-----------------------------------------------------------------------------
(* The feedback message: copy and download actions of the header           *)

\* The messages of setCopySuccess, named for what they say.
MsgCopiedMarkdown == "copied Markdown"
MsgCopiedHtml == "copied HTML"
MsgCopyFailed == "copy failed"
MsgDownloadedMarkdown == "downloaded the Markdown file"
MsgGenerating == "generating the image"
MsgDownloadedImage == "downloaded the image"
MsgImageFailed == "generating the image failed"

Messages == {MsgCopiedMarkdown, MsgCopiedHtml, MsgCopyFailed, MsgDownloadedMarkdown,
             MsgGenerating, MsgDownloadedImage, MsgImageFailed}

\* The slip of scheduling no clear.
ScheduleClearNever(timers, n) == timers

\* setTimeout(() => setCopySuccess(null), 2000), by action n: the delays
\* are equal, so the timers fire in the order they were set.
ScheduleClear(timers, n) == Append(timers, n)

\* contentRef.current is set: the markdown-body element is rendered.
ContentRendered == "markdown-body" \in View

\* {copySuccess && <div className="copy-toast">{copySuccess}</div>}
ToastView == IF copySuccess # "null" THEN {[class |-> "copy-toast", text |-> copySuccess]} ELSE {}

\* The message a finished copy sets.
CopyMessage(kind, success) ==
    IF ~success THEN MsgCopyFailed
    ELSE IF kind = "copyMarkdown" THEN MsgCopiedMarkdown ELSE MsgCopiedHtml

\* A feedback action starts: it is the next in number.
StartToastAction ==
    /\ toastCount < MaxToasts
    /\ toastCount' = toastCount + 1

\* copyMarkdown() up to its await: nothing for an empty content, else
\* copyToClipboard(cellInfo.content) is awaited.
CopyMarkdownClick ==
    /\ HeaderRendered
    /\ cellInfo[1].content # <<>>
    /\ StartToastAction
    /\ toastOps' = Append(toastOps, [kind |-> "copyMarkdown", n |-> toastCount + 1])
    /\ UNCHANGED <<copySuccess, toastTimers, toastBy, prefVars, exceptToast>>

\* copyHtml() up to its await: nothing without the content element, else
\* copyToClipboard(innerHTML) is awaited.
CopyHtmlClick ==
    /\ HeaderRendered
    /\ ContentRendered
    /\ StartToastAction
    /\ toastOps' = Append(toastOps, [kind |-> "copyHtml", n |-> toastCount + 1])
    /\ UNCHANGED <<copySuccess, toastTimers, toastBy, prefVars, exceptToast>>

\* await copyToClipboard(...) resolves with success: the message is set and
\* its clear is scheduled.
CopyResolved(i, success) ==
    /\ i \in 1..Len(toastOps)
    /\ toastOps[i].kind \in {"copyMarkdown", "copyHtml"}
    /\ copySuccess' = CopyMessage(toastOps[i].kind, success)
    /\ toastBy' = toastOps[i].n
    /\ toastTimers' = ScheduleClear(toastTimers, toastOps[i].n)
    /\ toastOps' = RemoveAt(toastOps, i)
    /\ UNCHANGED <<toastCount, prefVars, exceptToast>>

\* downloadAsMarkdown(), from the item of the open download menu
DownloadAsMarkdown ==
    /\ HeaderRendered
    /\ showDownloadMenu
    /\ cellInfo[1].content # <<>>
    /\ StartToastAction
    /\ copySuccess' = MsgDownloadedMarkdown
    /\ toastBy' = toastCount + 1
    /\ toastTimers' = ScheduleClear(toastTimers, toastCount + 1)
    /\ showDownloadMenu' = FALSE
    /\ UNCHANGED <<toastOps, appLoaded, storage, fontSize, showFontMenu, savedAtLoad, lastChosen,
                   exceptToast>>

\* downloadAsImage() up to its await, from the item of the open download
\* menu: the message is set, and html2canvas(...) is awaited.
DownloadAsImageClick ==
    /\ HeaderRendered
    /\ showDownloadMenu
    /\ ContentRendered
    /\ StartToastAction
    /\ copySuccess' = MsgGenerating
    /\ toastBy' = toastCount + 1
    /\ toastOps' = Append(toastOps, [kind |-> "image", n |-> toastCount + 1])
    /\ UNCHANGED <<toastTimers, prefVars, exceptToast>>

\* The rest of downloadAsImage(): the message, its clear, and the menu is
\* closed.
ImageFinished(i, message) ==
    /\ i \in 1..Len(toastOps)
    /\ toastOps[i].kind = "image"
    /\ copySuccess' = message
    /\ toastBy' = toastOps[i].n
    /\ toastTimers' = ScheduleClear(toastTimers, toastOps[i].n)
    /\ toastOps' = RemoveAt(toastOps, i)
    /\ showDownloadMenu' = FALSE
    /\ UNCHANGED <<toastCount, appLoaded, storage, fontSize, showFontMenu, savedAtLoad, lastChosen,
                   exceptToast>>

\* await html2canvas(...) resolves
ImageResolved(i) == ImageFinished(i, MsgDownloadedImage)

\* await html2canvas(...) rejects: the catch block
ImageRejected(i) == ImageFinished(i, MsgImageFailed)

\* The oldest pending timer fires: setCopySuccess(null).
TimerFires ==
    /\ toastTimers # <<>>
    /\ copySuccess' = "null"
    /\ toastBy' = 0
    /\ toastTimers' = Tail(toastTimers)
    /\ UNCHANGED <<toastOps, toastCount, prefVars, exceptToast>>

\* The header is rendered with a snapshot, with or without its content.
ToastInit ==
    /\ ToastIdle
    /\ PrefsIdle
    /\ hostSel = [tableId |-> "tbl1", fieldId |-> "fldText", recordId |-> "rec1"]
    /\ hostTheme = "LIGHT"
    /\ themeReply = <<>>
    /\ themeNotes = <<>>
    /\ initPc = "getTheme"
    /\ theme = "LIGHT"
    /\ cellInfo \in {<<Snapshot([tableId |-> "tbl1", fieldId |-> "fldText", recordId |-> r])>> :
                        r \in {"rec1", "rec2"}}
    /\ loading = FALSE
    /\ error \in {"null", ErrFetchFailed}
    /\ flows = <<>>
    /\ ClassifyIdle /\ BlocksIdle /\ CopyIdle /\ MermaidIdle

CopySettles == \E i \in 1..Len(toastOps), success \in BOOLEAN : CopyResolved(i, success)

ImageSettles == \E i \in 1..Len(toastOps) : ImageResolved(i) \/ ImageRejected(i)

ToastNext ==
    \/ ToggleDownloadMenu
    \/ CopyMarkdownClick
    \/ CopyHtmlClick
    \/ \E i \in 1..Len(toastOps), success \in BOOLEAN : CopyResolved(i, success)
    \/ DownloadAsMarkdown
    \/ DownloadAsImageClick
    \/ \E i \in 1..Len(toastOps) : ImageResolved(i)
    \/ \E i \in 1..Len(toastOps) : ImageRejected(i)
    \/ TimerFires

SpecToast == ToastInit /\ [][ToastNext]_vars

\* The timers fire, and the asynchronous steps of the actions complete.
FairSpecToast ==
    /\ ToastInit
    /\ [][ToastNext]_vars
    /\ WF_vars(TimerFires)
    /\ WF_vars(CopySettles)
    /\ WF_vars(ImageSettles)

\* ---- Claims about the feedback message (checked under FairSpecToast) ----

\* A message is shown that no pending timer and no pending image action
\* will clear or replace.
ToastStuck ==
    /\ copySuccess # "null"
    /\ toastTimers = <<>>
    /\ \A i \in 1..Len(toastOps) : toastOps[i].kind # "image"

\* C14: at most one feedback message is visible at a time; an action that
\* sets a message makes it the one shown, whatever was shown before; and
\* every message that is shown is cleared in the end, when the timers fire
\* and the asynchronous steps of the actions complete.
C14_OneToastEventuallyCleared ==
    /\ [](Cardinality(ToastView) <= 1)
    /\ [](copySuccess # "null" => ToastView = {[class |-> "copy-toast", text |-> copySuccess]})
    /\ [][(toastBy' # toastBy /\ toastBy' # 0) =>
            /\ copySuccess' \in Messages
            /\ ToastView' = {[class |-> "copy-toast", text |-> copySuccess']}]_vars
    /\ [](~ToastStuck)
    /\ \A m \in Messages : (copySuccess = m) ~> (copySuccess = "null")

\* C14 witness: the message of a finished copy was replaced by the message
\* of a download while the timer of the copy is still pending.
C14_Witness ==
    /\ copySuccess = MsgDownloadedMarkdown
    /\ toastBy = 2
    /\ toastTimers = <<1, 2>>

\* ---- Claims about the dropdown menus (checked under SpecPrefs) ----

\* C15 (as claimed): in every reachable state, a pointer-down whose target
\* is outside a menu's container leaves that menu's open flag false, and a
\* pointer-down inside the container leaves the flag as it is.
C15_OutsidePointerDownCloses ==
    appLoaded =>
        \A target \in MouseTargets :
            /\ target # "fontMenu" => FontMenuAfterMouseDown(target) = FALSE
            /\ target = "fontMenu" => FontMenuAfterMouseDown(target) = showFontMenu
            /\ target # "downloadMenu" => DownloadMenuAfterMouseDown(target) = FALSE
            /\ target = "downloadMenu" => DownloadMenuAfterMouseDown(target) = showDownloadMenu

\* ---- Claims about the font size (checked under SpecPrefs) ----

\* C16 (as claimed): in every reachable state the active font size is one of
\* the four buckets, mapped to 12, 14, 16 and 18 px, also right after a load
\* that found any value in the storage.
C16_FontSizeIsBucket ==
    appLoaded =>
        /\ fontSize \in {"small", "medium", "large", "xlarge"}
        /\ FONT_SIZE_MAP[fontSize] \in {12, 14, 16, 18}

\* ---- Claims about the theme (checked under Spec) ----

\* C17 (as claimed): once the getTheme() call of init has resolved and every
\* theme-change event the host sent has been delivered, the plugin's theme
\* is the host's theme, also when an event was delivered while getTheme()
\* was pending.
C17_ThemeMirrorsHost ==
    (initPc = "done" /\ themeNotes = <<>>) => theme = hostTheme

\* ---- Claims about the order of the host calls (checked under Spec) ----

\* The order of the awaits in fetchCellContent.
CallOrder == <<"getSelection", "getTableById", "getName", "getFieldById", "getMeta", "getValue">>

IsPrefix(p, q) == Len(p) <= Len(q) /\ SubSeq(q, 1, Len(p)) = p

\* C18: the host calls of one fetch flow are issued in the order
\* getSelection, getTableById, getName, getFieldById, getMeta, getValue: a
\* call is issued in the step in which the call before it resolves, at most
\* one call of a flow is pending, and getValue is issued only for a complete
\* selection whose field type is Text or Url.
C18_CallsInOrder ==
    /\ [](\A i \in 1..Len(flows) :
            /\ flows[i].calls # <<>>
            /\ IsPrefix(flows[i].calls, CallOrder)
            /\ flows[i].pc \notin {"done", "hung"} =>
                  flows[i].pc = flows[i].calls[Len(flows[i].calls)]
            /\ "getValue" \in Range(flows[i].calls) =>
                  /\ ~SelectionIncomplete(flows[i].sel)
                  /\ FlowFieldType(i) \in {"Text", "Url"})
    /\ [][\A i \in 1..Len(flows) :
            flows'[i].calls # flows[i].calls =>
                /\ flows[i].pc = flows[i].calls[Len(flows[i].calls)]
                /\ flows'[i].calls = Append(flows[i].calls, flows'[i].pc)
                /\ flows'[i].pc = CallOrder[Len(flows[i].calls) + 1]]_vars

\* C18 witness: one flow has made all six calls and written its snapshot,
\* while another stopped after getMeta for a Number field.
C18_Witness ==
    /\ Len(flows) = 2
    /\ flows[1].calls = CallOrder
    /\ flows[1].outcome = "ok"
    /\ flows[2].calls = SubSeq(CallOrder, 1, 5)
    /\ flows[2].outcome = "unsupported"

\* ---- Claims about a host call that never resolves (checked under Spec) ----

\* A host call of some fetch flow never resolves.
SomeCallHung == \E i \in 1..Len(flows) : flows[i].pc = "hung"

IdsFrom(info, sel) ==
    /\ info.tableId = sel.tableId
    /\ info.fieldId = sel.fieldId
    /\ info.recordId = sel.recordId

\* C20: a non-null snapshot has field type Text or Url; its table id, field
\* id and record id are all non-empty, and are those of the one
\* getSelection result of the flow that wrote it.
C20_SnapshotValid ==
    /\ [](cellInfo # <<>> =>
            /\ cellInfo[1].fieldType \in {"Text", "Url"}
            /\ cellInfo[1].tableId # "null"
            /\ cellInfo[1].fieldId # "null"
            /\ cellInfo[1].recordId # "null"
            /\ \E i \in 1..Len(flows) :
                  /\ flows[i].outcome = "ok"
                  /\ flows[i].sel \in Selections
                  /\ IdsFrom(cellInfo[1], flows[i].sel))
    /\ [][\A i \in 1..Len(flows) :
            flows'[i].sel # flows[i].sel =>
                /\ flows[i].pc = "getSelection"
                /\ flows[i].sel = NullSelection
                /\ flows'[i].sel = hostSel]_vars
    /\ [][(cellInfo' # cellInfo /\ cellInfo' # <<>>) =>
            \E i \in 1..Len(flows) :
                /\ flows[i].pc = "getValue"
                /\ flows'[i].pc = "done"
                /\ IdsFrom(cellInfo'[1], flows[i].sel)]_vars

\* C20 witness: the snapshot of a URL cell is in place, written by the first
\* flow, while the host's selection has moved on to a selection without a
\* record and the flow of that selection is at its getSelection().
C20_Witness ==
    /\ Len(flows) = 2
    /\ flows[1].outcome = "ok"
    /\ flows[2].pc = "getSelection"
    /\ cellInfo # <<>>
    /\ cellInfo[1].fieldType = "Url"
    /\ IdsFrom(cellInfo[1], flows[1].sel)
    /\ hostSel.recordId = "null"

\* ---- Claims about the loading flag (checked under Spec) ----

\* Some fetch flow has started and not yet finished.
SomeFlowInFlight == \E i \in 1..Len(flows) : flows[i].pc # "done"

\* C21: loading is true in every state in which at least one fetch flow has
\* started and not yet finished, and false in every state in which no fetch
\* flow is in flight, whatever the order in which overlapping flows finish.
C21_LoadingIffFlowInFlight == loading <=> SomeFlowInFlight

\* ---- Claims about overlapping renders (checked under SpecMermaid) ----

\* The render issued for the (code, theme) the block has now: the last
\* call made, when the code is not empty.
IsLatestRender(r) ==
    /\ mbProps.code # ""
    /\ r.n = mbIssued
    /\ r.code = mbProps.code
    /\ r.theme = mbProps.theme

\* The step in which the last pending render of the mounted block settles.
LastRenderSettles ==
    /\ mbMounted /\ mbMounted'
    /\ mbProps.code # ""
    /\ Len(mbRenders) = 1
    /\ mbRenders' = <<>>

\* C22: when the code or the theme of a block changes while an earlier
\* render is pending, then once every render issued has settled the block
\* shows the outcome of the render issued for the latest (code, theme): the
\* render that settles last is that one, and an earlier render that settles
\* later does not overwrite its drawing or its error.
C22_LatestRenderDisplayed ==
    [][LastRenderSettles =>
          /\ IsLatestRender(mbRenders[1])
          /\ mbLast' = "resolved" => (mbSvg' = <<mbRenders[1]>> /\ mbError' = "null")
          /\ mbLast' = "rejected" => mbError' # "null"]_vars

\* ---- Claims about the clear-timers (checked under SpecToast) ----

\* The step in which a timer fires and clears the message that is shown.
TimerClearsMessage ==
    /\ toastTimers # <<>>
    /\ toastTimers' = Tail(toastTimers)
    /\ copySuccess # "null"
    /\ copySuccess' = "null"

\* C23: a message set by an action stays visible until the clear-timer
\* scheduled by that same action fires, unless a newer message replaces it:
\* the timer that clears a message is the timer of the action that set it,
\* never the timer of an earlier action.
C23_OwnTimerClearsMessage ==
    [][TimerClearsMessage => Head(toastTimers) = toastBy]_vars

\* ---- Claims about the fallback textarea (checked under SpecCopy) ----

\* C24: whenever copyToClipboard takes the fallback path, the textarea it
\* appended to document.body is removed again before it returns, whether
\* the legacy copy command returns true, returns false or throws: after any
\* sequence of copy operations document.body holds no leftover textarea.
C24_NoLeftoverTextarea == bodyTextareas = 0

====
